---- MODULE Spec2Model ----
(***************************************************************************)
(* Model of the MaziShark API (src/api/index.py): a FastAPI application    *)
(* that serves queries over one NetCDF file holding the habitat index      *)
(* H_index(lat, lon).                                                      *)
(*                                                                         *)
(* Floating-point numbers are modelled as exact rationals n/d in lowest    *)
(* terms, plus the not-a-number value; rounding is abstracted away.        *)
(* A None in a JSON body is the value Null.  Indices are 0-based as in the  *)
(* code; TLA+ sequences are 1-based, so the element at index i of a is     *)
(* a[i+1].                                                                 *)
(***************************************************************************)
EXTENDS Integers, Sequences, FiniteSets, TLC

VARIABLES
    cwd,       \* os.getcwd(): the process's working directory (a path)
    override,  \* os.getenv("MAZI_DATA_PATH"): EnvUnset, or a path (<<>> is "")
    fs,        \* the file system: absolute path -> file content, or Absent
    mapfile,   \* content of map.png beside index.py: NoFile, Truncated or an image
    req,       \* the request a sequential handler served last
    fresh,     \* TRUE while the file system is as that handler saw it
    located,   \* that handler's local data_path (find_data_file's result)
    ds,        \* the dataset that handler's load_h_dataset returned, or NoDs
    ret,       \* what the handler returned or raised
    resp,      \* the HTTP response the framework built from it
    pc,        \* per concurrent /map request: its position in map_png
    loc        \* per concurrent /map request: its locals and its response

vars == <<cwd, override, fs, mapfile, req, fresh, located, ds, ret, resp, pc, loc>>

----------------------------------------------------------------------------
(* Floats *)

AbsI(x) == IF x < 0 THEN -x ELSE x

RECURSIVE GCD(_, _)
GCD(a, b) == IF b = 0 THEN a ELSE GCD(b, a % b)

\* The finite float n/d (d > 0), in lowest terms.
Rat(n, d) ==
    LET g == GCD(AbsI(n), d)
    IN  [k |-> "num", n |-> n \div g, d |-> d \div g]

NaN == [k |-> "nan", n |-> 0, d |-> 1]
Null == [k |-> "null", n |-> 0, d |-> 1]

isfinite(x) == x.k = "num"
isnan(x) == x.k = "nan"

FSub(a, b) ==
    IF isnan(a) \/ isnan(b) THEN NaN ELSE Rat(a.n * b.d - b.n * a.d, a.d * b.d)

FAbs(a) == IF isnan(a) THEN NaN ELSE Rat(AbsI(a.n), a.d)

\* a < b on finite floats
FLt(a, b) == a.n * b.d < b.n * a.d
FLe(a, b) == a.n * b.d <= b.n * a.d

----------------------------------------------------------------------------
(* numpy *)

\* ndarray.argmin(): the index of the first minimum; a not-a-number entry
\* counts as the minimum, so the first one wins.  best is the index held so
\* far, k the next index to look at.
RECURSIVE argminFrom_last(_, _, _)
argminFrom_last(a, best, k) ==
    IF k >= Len(a) THEN best
    ELSE IF isnan(a[best + 1]) THEN best
    ELSE IF isnan(a[k + 1]) \/ FLe(a[k + 1], a[best + 1])
         THEN argminFrom_last(a, k, k + 1)
         ELSE argminFrom_last(a, best, k + 1)

RECURSIVE argminFrom(_, _, _)
argminFrom(a, best, k) ==
    IF k >= Len(a) THEN best
    ELSE IF isnan(a[best + 1]) THEN best
    ELSE IF isnan(a[k + 1]) \/ FLt(a[k + 1], a[best + 1])
         THEN argminFrom(a, k, k + 1)
         ELSE argminFrom(a, best, k + 1)

\* argmin of an empty array raises ValueError: callers test Len(a) = 0 first.
argmin(a) == argminFrom(a, 0, 1)

clip(x, lo, hi) == IF x < lo THEN lo ELSE IF x > hi THEN hi ELSE x

\* a[k] - q for every k, then np.abs
absdiff(a, q) == [k \in 1..Len(a) |-> FAbs(FSub(a[k], q))]

RECURSIVE flatten(_)
flatten(H) == IF H = <<>> THEN <<>> ELSE Head(H) \o flatten(Tail(H))

\* arr[np.isfinite(arr)]
RECURSIVE finiteOnly(_)
finiteOnly(a) ==
    IF a = <<>> THEN <<>>
    ELSE IF isfinite(Head(a)) THEN <<Head(a)>> \o finiteOnly(Tail(a))
    ELSE finiteOnly(Tail(a))

RECURSIVE fsum(_)
fsum(a) ==
    IF a = <<>> THEN Rat(0, 1)
    ELSE LET s == fsum(Tail(a))
         IN  Rat(Head(a).n * s.d + s.n * Head(a).d, Head(a).d * s.d)

\* np.nanmean of a 1-D slice: not-a-number when no entry is left (a warning,
\* not an exception).
nanmean1(a) ==
    LET f == finiteOnly(a)
    IN  IF f = <<>> THEN NaN
        ELSE LET s == fsum(f) IN Rat(s.n, s.d * Len(f))

RECURSIVE fminOf(_)
fminOf(a) ==
    IF Len(a) = 1 THEN a[1]
    ELSE LET m == fminOf(Tail(a)) IN IF FLt(m, Head(a)) THEN m ELSE Head(a)

RECURSIVE fmaxOf(_)
fmaxOf(a) ==
    IF Len(a) = 1 THEN a[1]
    ELSE LET m == fmaxOf(Tail(a)) IN IF FLt(Head(a), m) THEN m ELSE Head(a)

\* np.nanmin / np.nanmax of a non-empty array: not-a-number when all entries are
nanmin(a) == LET f == finiteOnly(a) IN IF f = <<>> THEN NaN ELSE fminOf(f)
nanmax(a) == LET f == finiteOnly(a) IN IF f = <<>> THEN NaN ELSE fmaxOf(f)

\* column j (1-based) of a 2-D array whose rows all have that column
column(H, j) == [i \in 1..Len(H) |-> H[i][j]]

NBINS == 10

\* np.histogram(arr, bins=NBINS, range=(0.0, 1.0)) on finite values: the bin
\* of a kept value is int(a * NBINS), the value 1.0 going to the last bin.
inRange(a) == FLe(Rat(0, 1), a) /\ FLe(a, Rat(1, 1))
binOf_open(a) == (a.n * NBINS) \div a.d

binOf(a) ==
    LET f == (a.n * NBINS) \div a.d
    IN  IF f = NBINS THEN NBINS - 1 ELSE f

RECURSIVE countBin(_, _)
countBin(a, b) ==
    IF a = <<>> THEN 0
    ELSE (IF inRange(Head(a)) /\ binOf(Head(a)) = b THEN 1 ELSE 0)
         + countBin(Tail(a), b)

histogramCounts(a) == [b \in 1..NBINS |-> countBin(a, b - 1)]
\* edges[:-1] of np.linspace(0.0, 1.0, NBINS + 1)
histogramBins == [b \in 1..NBINS |-> Rat(b - 1, NBINS)]

----------------------------------------------------------------------------
(* Paths and the environment *)

\* A path is a sequence of names; an absolute one starts with "/".
DATA_FILENAME == <<"habitat_index_H.nc">>

\* os.path.dirname(__file__): the directory of index.py
HERE == <<"/", "app", "api">>

\* os.path.normpath on the names: "x/.." is dropped
RECURSIVE normpath(_)
normpath(p) ==
    IF \E k \in 2..Len(p) : p[k] = ".." /\ p[k - 1] \notin {"..", "/"}
    THEN LET k == CHOOSE k \in 2..Len(p) :
                      /\ p[k] = ".." /\ p[k - 1] \notin {"..", "/"}
                      /\ \A m \in 2..(k - 1) : p[m] # ".."
         IN  normpath(SubSeq(p, 1, k - 2) \o SubSeq(p, k + 1, Len(p)))
    ELSE p

isabs(p) == p # <<>> /\ p[1] = "/"

\* os.path.join of a path and a relative path
join(a, b) == a \o b

\* os.path.abspath: relative paths are taken from the working directory
abspath(p) == normpath(IF isabs(p) THEN p ELSE join(cwd, p))

EnvUnset == [set |-> FALSE, path |-> <<>>]
EnvPath(p) == [set |-> TRUE, path |-> p]

\* Optional[str]
None == [some |-> FALSE, path |-> <<>>]
Some(p) == [some |-> TRUE, path |-> p]

----------------------------------------------------------------------------
(* File contents *)

\* A NetCDF file: whether it holds the variable H_index and the coordinates
\* lat/lon, the two axes and the 2-D array (a sequence of rows).
NC(hasH, hasCoords, lat, lon, H) ==
    [kind |-> "nc", hasH |-> hasH, hasCoords |-> hasCoords,
     lat |-> lat, lon |-> lon, H |-> H]

Absent == [kind |-> "absent", hasH |-> FALSE, hasCoords |-> FALSE,
           lat |-> <<>>, lon |-> <<>>, H |-> <<>>]
NoDs == Absent

nrows(H) == Len(H)
ncols(H) == IF H = <<>> THEN 0 ELSE Len(H[1])

\* H.shape == (lat.size, lon.size)
WellShaped(d) == nrows(d.H) = Len(d.lat) /\ ncols(d.H) = Len(d.lon)

\* os.path.exists, on files
exists(p) == LET a == abspath(p) IN a \in DOMAIN fs /\ fs[a].kind # "absent"

----------------------------------------------------------------------------
(* find_data_file and load_h_dataset *)

candidates ==
    << abspath(DATA_FILENAME),
       abspath(join(cwd, DATA_FILENAME)),
       abspath(join(join(HERE, <<"..">>), DATA_FILENAME)),
       abspath(join(HERE, DATA_FILENAME)),
       abspath(join(join(HERE, <<"..", "data">>), DATA_FILENAME)),
       abspath(join(<<"data">>, DATA_FILENAME)) >>

RECURSIVE firstExisting(_)
firstExisting(ps) ==
    IF ps = <<>> THEN None
    ELSE IF exists(Head(ps)) THEN Some(Head(ps))
    ELSE firstExisting(Tail(ps))

find_data_file_unchecked ==
    IF override.set /\ override.path # <<>>
    THEN Some(abspath(override.path))
    ELSE firstExisting(candidates)

\* "if override and os.path.exists(override)": an unset or empty override
\* is skipped
find_data_file ==
    IF override.set /\ override.path # <<>> /\ exists(override.path)
    THEN Some(abspath(override.path))
    ELSE firstExisting(candidates)

\* The dataset, or the exception raised
Loaded(d) == [exc |-> "", ds |-> d]
LoadError(e) == [exc |-> e, ds |-> NoDs]

load_h_dataset_cached(path) ==
    IF ds # NoDs THEN Loaded(ds)
    ELSE IF ~exists(path) THEN LoadError("FileNotFoundError")
    ELSE LET d == fs[abspath(path)]
         IN  IF ~d.hasH THEN LoadError("KeyError")
             ELSE IF ~d.hasCoords THEN LoadError("KeyError")
             ELSE Loaded(d)

load_h_dataset(path) ==
    IF ~exists(path) THEN LoadError("FileNotFoundError")
    ELSE LET d == fs[abspath(path)]
         IN  IF ~d.hasH THEN LoadError("KeyError")
             ELSE IF ~d.hasCoords THEN LoadError("KeyError")
             ELSE Loaded(d)

----------------------------------------------------------------------------
(* datetime.strptime(date, "%Y-%m-%d") *)

\* A date string is a sequence of characters.
Digits == <<"0", "1", "2", "3", "4", "5", "6", "7", "8", "9">>
isdigit(c) == \E k \in 1..10 : Digits[k] = c
digit(c) == (CHOOSE k \in 1..10 : Digits[k] = c) - 1

RECURSIVE toint(_)
toint(s) == IF s = <<>> THEN 0
            ELSE 10 * toint(SubSeq(s, 1, Len(s) - 1)) + digit(s[Len(s)])

alldigits(s) == \A k \in 1..Len(s) : isdigit(s[k])

\* %m is 1[0-2]|0[1-9]|[1-9]: one or two digits, in range
monthToken(s) == Len(s) \in {1, 2} /\ alldigits(s) /\ toint(s) \in 1..12
\* %d is 3[01]|[12]\d|0[1-9]|[1-9]| [1-9]: the same, or a space and a digit
dayToken(s) ==
    \/ Len(s) \in {1, 2} /\ alldigits(s) /\ toint(s) \in 1..31
    \/ Len(s) = 2 /\ s[1] = " " /\ isdigit(s[2]) /\ digit(s[2]) >= 1
dayValue(s) == IF s[1] = " " THEN digit(s[2]) ELSE toint(s)

isleap(y) == y % 4 = 0 /\ (y % 100 # 0 \/ y % 400 = 0)
daysIn(y, m) ==
    IF m = 2 THEN (IF isleap(y) THEN 29 ELSE 28)
    ELSE IF m \in {4, 6, 9, 11} THEN 30 ELSE 31

\* TRUE when strptime returns, FALSE when it raises ValueError: %Y is four
\* digits, the whole string must be consumed, and the date must exist.
strptime(s) ==
    /\ Len(s) >= 8
    /\ alldigits(SubSeq(s, 1, 4))
    /\ s[5] = "-"
    /\ \E k \in 7..(Len(s) - 1) :
          /\ s[k] = "-"
          /\ monthToken(SubSeq(s, 6, k - 1))
          /\ dayToken(SubSeq(s, k + 1, Len(s)))
          /\ toint(SubSeq(s, 1, 4)) >= 1
          /\ dayValue(SubSeq(s, k + 1, Len(s)))
                <= daysIn(toint(SubSeq(s, 1, 4)), toint(SubSeq(s, 6, k - 1)))

----------------------------------------------------------------------------
(* What a handler returns or raises *)

Return(kind, content) ==
    [t |-> "return", kind |-> kind, status |-> 200, content |-> content]

\* status is the HTTPException's status_code; other exceptions carry none
Raise(exc, status) ==
    [t |-> "raise", kind |-> exc, status |-> status,
     content |-> [type |-> "detail"]]

\* A handler's outcome with its locals data_path and ds
Out(data_path, d, r) == [data_path |-> data_path, ds |-> d, ret |-> r]

\* "except Exception as e: raise HTTPException(status_code=500, ...)":
\* HTTPException is an Exception, so the clause catches it as well
except_Exception(out) ==
    IF out.ret.t = "raise"
    THEN [out EXCEPT !.ret = Raise("HTTPException", 500)]
    ELSE out

\* An optional query parameter
NoDate == [given |-> FALSE, s |-> <<>>]
Date(s) == [given |-> TRUE, s |-> s]

----------------------------------------------------------------------------
(* GET /meta *)

\* ndarray.min() / max(): not-a-number if any entry is
amin(a) == IF \E k \in 1..Len(a) : isnan(a[k]) THEN NaN ELSE fminOf(a)
amax(a) == IF \E k \in 1..Len(a) : isnan(a[k]) THEN NaN ELSE fmaxOf(a)

meta ==
    LET data_path == find_data_file IN
    IF ~data_path.some
    THEN Out(data_path, NoDs, Raise("HTTPException", 404))
    ELSE LET l == load_h_dataset(data_path.path) IN
         IF l.exc # "" THEN Out(data_path, NoDs, Raise(l.exc, 0))
         ELSE IF Len(l.ds.lat) = 0 \/ Len(l.ds.lon) = 0
         THEN Out(data_path, l.ds, Raise("ValueError", 0))
         ELSE Out(data_path, l.ds, Return("dict",
                [type |-> "meta",
                 path |-> data_path.path,
                 lat |-> [size |-> Len(l.ds.lat), min |-> amin(l.ds.lat),
                          max |-> amax(l.ds.lat)],
                 lon |-> [size |-> Len(l.ds.lon), min |-> amin(l.ds.lon),
                          max |-> amax(l.ds.lon)]]))

(* GET /health *)
health == Out(None, NoDs, Return("dict", [type |-> "health"]))

----------------------------------------------------------------------------
(* GET /analyze *)

\* The try block
analyze_try(data_path, date) ==
    LET l == load_h_dataset(data_path.path) IN
    IF l.exc # "" THEN Out(data_path, NoDs, Raise(l.exc, 0))
    ELSE LET v == flatten(l.ds.H) IN
         IF v = <<>> THEN Out(data_path, l.ds, Raise("ValueError", 0))
         ELSE IF date.given /\ ~strptime(date.s)
         THEN Out(data_path, l.ds, Raise("HTTPException", 400))
         ELSE Out(data_path, l.ds, Return("dict",
                [type |-> "analyze",
                 data_path |-> data_path.path,
                 stats |-> [min |-> nanmin(v), max |-> nanmax(v),
                            mean |-> nanmean1(v)],
                 has_requested_date |-> date.given,
                 requested_date |-> date.s]))

analyze(date) ==
    LET data_path == find_data_file IN
    IF ~data_path.some
    THEN Out(data_path, NoDs, Return("JSONResponse", [type |-> "message"]))
    ELSE except_Exception(analyze_try(data_path, date))

----------------------------------------------------------------------------
(* GET /predict *)

\* The try block
predict_try(data_path, lat, lon) ==
    LET l == load_h_dataset(data_path.path) IN
    IF l.exc # "" THEN Out(data_path, NoDs, Raise(l.exc, 0))
    ELSE LET H == l.ds.H
             lat_arr == l.ds.lat
             lon_arr == l.ds.lon
         IN
         IF Len(lat_arr) = 0 \/ Len(lon_arr) = 0
         THEN Out(data_path, l.ds, Raise("ValueError", 0))
         ELSE LET i == clip(argmin(absdiff(lat_arr, lat)), 0, Len(lat_arr) - 1)
                  j == clip(argmin(absdiff(lon_arr, lon)), 0, Len(lon_arr) - 1)
              IN
              IF i >= nrows(H) \/ j >= ncols(H)
              THEN Out(data_path, l.ds, Raise("IndexError", 0))
              ELSE LET val == IF isfinite(H[i + 1][j + 1])
                              THEN H[i + 1][j + 1] ELSE NaN
                   IN  Out(data_path, l.ds, Return("dict",
                         [type |-> "predict", lat |-> lat, lon |-> lon,
                          H |-> val, i |-> i, j |-> j]))

predict(lat, lon) ==
    LET data_path == find_data_file IN
    IF ~data_path.some
    THEN Out(data_path, NoDs, Return("dict",
           [type |-> "fallback", lat |-> lat, lon |-> lon,
            H |-> Rat(1, 2), note |-> "H absent, renvoi par defaut"]))
    ELSE except_Exception(predict_try(data_path, lat, lon))

----------------------------------------------------------------------------
(* GET /series *)

noneIfNotFinite_zero(vals) ==
    [k \in 1..Len(vals) |-> IF ~isfinite(vals[k]) THEN Rat(0, 1) ELSE vals[k]]

\* "None if not np.isfinite(v) else float(v)"
noneIfNotFinite(vals) ==
    [k \in 1..Len(vals) |-> IF ~isfinite(vals[k]) THEN Null ELSE vals[k]]

\* The try block
series_try(data_path, agg) ==
    LET l == load_h_dataset(data_path.path) IN
    IF l.exc # "" THEN Out(data_path, NoDs, Raise(l.exc, 0))
    ELSE LET H == l.ds.H IN
         IF agg = "lat_mean"
         THEN LET vals == [i \in 1..nrows(H) |-> nanmean1(H[i])]
              IN  Out(data_path, l.ds, Return("dict",
                    [type |-> "lat_mean", lat |-> l.ds.lat,
                     H |-> noneIfNotFinite(vals)]))
         ELSE IF agg = "lon_mean"
         THEN LET vals == [j \in 1..ncols(H) |-> nanmean1(column(H, j))]
              IN  Out(data_path, l.ds, Return("dict",
                    [type |-> "lon_mean", lon |-> l.ds.lon,
                     H |-> noneIfNotFinite(vals)]))
         ELSE LET arr == finiteOnly(flatten(H)) IN
              IF Len(arr) = 0
              THEN Out(data_path, l.ds, Return("dict",
                     [type |-> "global", bins |-> <<>>, counts |-> <<>>]))
              ELSE Out(data_path, l.ds, Return("dict",
                     [type |-> "global", bins |-> histogramBins,
                      counts |-> histogramCounts(arr)]))

series(agg) ==
    LET data_path == find_data_file IN
    IF ~data_path.some
    THEN Out(data_path, NoDs, Raise("HTTPException", 404))
    ELSE except_Exception(series_try(data_path, agg))

----------------------------------------------------------------------------
(* GET /map and GET /plot *)

\* The content of map.png (os.path.join(os.path.dirname(__file__), "map.png"))
NoFile == [kind |-> "none", of |-> NoDs]
Truncated == [kind |-> "empty", of |-> NoDs]
\* The PNG rendered from dataset d
Image(d) == [kind |-> "png", of |-> d]

\* ax.pcolormesh(lon, lat, H.values, shading="auto"): H must have one value
\* per (lat, lon) point, or one per cell between them; else TypeError
pcolormesh_ok(d) ==
    \/ nrows(d.H) = Len(d.lat) /\ ncols(d.H) = Len(d.lon)
    \/ nrows(d.H) = Len(d.lat) - 1 /\ ncols(d.H) = Len(d.lon) - 1

\* The try block up to fig.savefig(buf): the PNG in buf, or the exception
map_render(data_path) ==
    LET l == load_h_dataset(data_path.path) IN
    IF l.exc # "" THEN [exc |-> l.exc, ds |-> NoDs, buf |-> NoFile]
    ELSE IF ~pcolormesh_ok(l.ds)
    THEN [exc |-> "TypeError", ds |-> l.ds, buf |-> NoFile]
    ELSE [exc |-> "", ds |-> l.ds, buf |-> Image(l.ds)]

\* map_png run without interruption: its outcome and what it leaves in map.png
map_png ==
    LET data_path == find_data_file IN
    IF ~data_path.some
    THEN [out |-> Out(data_path, NoDs, Raise("HTTPException", 404)),
          mapfile |-> mapfile]
    ELSE LET m == map_render(data_path) IN
         IF m.exc # ""
         THEN [out |-> except_Exception(Out(data_path, m.ds, Raise(m.exc, 0))),
               mapfile |-> mapfile]
         ELSE [out |-> Out(data_path, m.ds,
                           Return("FileResponse", [type |-> "file"])),
               mapfile |-> m.buf]

plot_png == map_png

----------------------------------------------------------------------------
(* The framework: from a handler's outcome to the HTTP response *)

\* Every float of a JSON body
FloatLeaves(c) ==
    CASE c.type = "meta" -> <<c.lat.min, c.lat.max, c.lon.min, c.lon.max>>
      [] c.type = "analyze" -> <<c.stats.min, c.stats.max, c.stats.mean>>
      [] c.type = "predict" -> <<c.lat, c.lon, c.H>>
      [] c.type = "fallback" -> <<c.lat, c.lon, c.H>>
      [] c.type = "lat_mean" -> c.lat \o c.H
      [] c.type = "lon_mean" -> c.lon \o c.H
      [] c.type = "global" -> c.bins
      [] OTHER -> <<>>

\* JSONResponse.render is json.dumps(content, allow_nan=False): ValueError
\* on a not-a-number float; None is rendered as null
json_dumps_ok(c) == \A k \in 1..Len(FloatLeaves(c)) : ~isnan(FloatLeaves(c)[k])

ErrorBody == [type |-> "error"]
Http(status, media, body) == [status |-> status, media |-> media, body |-> body]

\* r is what the handler returned or raised, mf the content of map.png when
\* a FileResponse is streamed.  An HTTPException becomes its status; any other
\* exception, in the handler or while rendering its result, becomes a 500.
Respond(r, mf) ==
    IF r.t = "raise"
    THEN IF r.kind = "HTTPException" THEN Http(r.status, "json", ErrorBody)
         ELSE Http(500, "text", ErrorBody)
    ELSE IF r.kind = "FileResponse"
    THEN IF mf.kind = "none" THEN Http(500, "text", ErrorBody)
         ELSE Http(200, "png", mf)
    ELSE IF json_dumps_ok(r.content) THEN Http(r.status, "json", r.content)
    ELSE Http(500, "text", ErrorBody)

----------------------------------------------------------------------------
(* Inputs *)

\* The float n, and the float n/100
F(n) == Rat(n, 1)
C(n) == Rat(n, 100)

\* Working directories: the project root, the directory of index.py, another
Cwds == { <<"/", "app">>, <<"/", "app", "api">>, <<"/", "srv">> }

\* MAZI_DATA_PATH: unset, empty, an absolute path, a relative path
Overrides ==
    { EnvUnset, EnvPath(<<>>), EnvPath(<<"/", "mnt", "H.nc">>),
      EnvPath(<<"custom.nc">>) }

\* The places find_data_file looks at
RelevantPlaces ==
    {candidates[k] : k \in 1..Len(candidates)}
        \cup (IF override.set /\ override.path # <<>>
              THEN {abspath(override.path)} ELSE {})

\* The place MAZI_DATA_PATH names
OverridePlace == abspath(override.path)

\* The example grid of the specification, section 8
D_example ==
    NC(TRUE, TRUE, <<F(10), F(20)>>, <<F(100), F(110)>>,
       << <<C(20), NaN>>, <<C(80), C(40)>> >>)
\* Another grid: unsorted axis, a row without a value, values 1.0 and 1.2
D_other ==
    NC(TRUE, TRUE, <<F(15), F(-5), F(5)>>, <<F(50)>>,
       << <<C(100)>>, <<C(120)>>, <<NaN>> >>)
\* No cell has a value
D_allnan == NC(TRUE, TRUE, <<F(0)>>, <<F(0)>>, << <<NaN>> >>)
\* H_index stored as (lon, lat)
D_swapped ==
    NC(TRUE, TRUE, <<F(10), F(20), F(30)>>, <<F(100), F(110)>>,
       << <<C(10), C(20), C(30)>>, <<C(40), C(50), C(60)>> >>)
\* Files without the variable, without the coordinates
D_noH == NC(FALSE, TRUE, <<F(10)>>, <<F(100)>>, <<>>)
D_nocoords == NC(TRUE, FALSE, <<>>, <<>>, << <<C(50)>> >>)

Catalog == {D_example, D_other, D_allnan, D_swapped, D_noH, D_nocoords}

\* Query coordinates: on the grid, far outside it, not a number
LatQueries == {F(20), F(-100000), NaN}
LonQueries == {F(100), F(110), NaN}

Dates ==
    { NoDate,
      Date(<<"2", "0", "2", "4", "-", "0", "1", "-", "0", "1">>),
      Date(<<"2", "0", "2", "4", "/", "0", "1", "/", "0", "1">>),
      Date(<<"2", "0", "2", "4", "-", "1", "-", "1">>),
      Date(<<"2", "0", "2", "3", "-", "0", "2", "-", "2", "9">>) }

Aggs == {"global", "lat_mean", "lon_mean", "median"}

----------------------------------------------------------------------------
(* Requests served one at a time *)

Req(ep, lat, lon, agg, date) ==
    [ep |-> ep, lat |-> lat, lon |-> lon, agg |-> agg, date |-> date]
NoReq == Req("", NaN, NaN, "", NoDate)
NoResp == Http(0, "", ErrorBody)
NoRet == Raise("", 0)

\* Number of /map and /plot requests that may be in flight together
MaxReq == 2
Slots == 1..MaxReq
IdleLoc == [ep |-> "", ds |-> NoDs, buf |-> NoFile, resp |-> NoResp]

\* A handler runs to its end and the framework sends the response; mf is
\* what the handler leaves in map.png
Serve(rq, out, mf) ==
    \E o \in {out} :
        /\ req' = rq
        /\ fresh' = TRUE
        /\ located' = o.data_path
        /\ ds' = o.ds
        /\ ret' = o.ret
        /\ mapfile' = mf
        /\ resp' = Respond(o.ret, mf)
        /\ UNCHANGED <<cwd, override, fs, pc, loc>>

Meta == Serve(Req("meta", NaN, NaN, "", NoDate), meta, mapfile)
Health == Serve(Req("health", NaN, NaN, "", NoDate), health, mapfile)
Analyze(date) == Serve(Req("analyze", NaN, NaN, "", date), analyze(date), mapfile)
MapPng == Serve(Req("map", NaN, NaN, "", NoDate), map_png.out, map_png.mapfile)
PlotPng == Serve(Req("plot", NaN, NaN, "", NoDate), plot_png.out, plot_png.mapfile)
Predict(lat, lon) ==
    Serve(Req("predict", lat, lon, "", NoDate), predict(lat, lon), mapfile)
Series(agg) == Serve(Req("series", NaN, NaN, agg, NoDate), series(agg), mapfile)

(* The source file appears or is replaced, and disappears *)
FsPut(p, d) ==
    /\ fs[p] # d
    /\ fs' = [fs EXCEPT ![p] = d]
    /\ fresh' = FALSE
    /\ UNCHANGED <<cwd, override, mapfile, req, located, ds, ret, resp, pc, loc>>

FsRemove(p) ==
    /\ fs[p].kind # "absent"
    /\ fs' = [fs EXCEPT ![p] = Absent]
    /\ fresh' = FALSE
    /\ UNCHANGED <<cwd, override, mapfile, req, located, ds, ret, resp, pc, loc>>

----------------------------------------------------------------------------
(* Concurrent /map and /plot requests: map_png step by step.  The handlers *)
(* are plain functions, which the framework runs on a pool of threads.     *)

MapStart(r, ep) ==
    /\ pc[r] = "idle"
    /\ pc' = [pc EXCEPT ![r] = "called"]
    /\ loc' = [loc EXCEPT ![r] = [IdleLoc EXCEPT !.ep = ep]]
    /\ UNCHANGED <<cwd, override, fs, mapfile, req, fresh, located, ds, ret, resp>>

\* find_data_file, load_h_dataset and the rendering into buf
MapRender(r) ==
    /\ pc[r] = "called"
    /\ LET data_path == find_data_file IN
       IF ~data_path.some
       THEN /\ loc' = [loc EXCEPT ![r].resp =
                         Respond(Raise("HTTPException", 404), mapfile)]
            /\ pc' = [pc EXCEPT ![r] = "done"]
       ELSE LET m == map_render(data_path) IN
            IF m.exc # ""
            THEN /\ loc' = [loc EXCEPT ![r].ds = m.ds,
                                       ![r].resp =
                              Respond(except_Exception(
                                  Out(data_path, m.ds, Raise(m.exc, 0))).ret,
                                  mapfile)]
                 /\ pc' = [pc EXCEPT ![r] = "done"]
            ELSE /\ loc' = [loc EXCEPT ![r].ds = m.ds, ![r].buf = m.buf]
                 /\ pc' = [pc EXCEPT ![r] = "open"]
    /\ UNCHANGED <<cwd, override, fs, mapfile, req, fresh, located, ds, ret, resp>>

\* open(tmp_path, "wb") truncates map.png
MapOpen(r) ==
    /\ pc[r] = "open"
    /\ mapfile' = Truncated
    /\ pc' = [pc EXCEPT ![r] = "write"]
    /\ UNCHANGED <<cwd, override, fs, req, fresh, located, ds, ret, resp, loc>>

\* f.write(buf.read()) and the end of the with block
MapWrite(r) ==
    /\ pc[r] = "write"
    /\ mapfile' = loc[r].buf
    /\ pc' = [pc EXCEPT ![r] = "return"]
    /\ UNCHANGED <<cwd, override, fs, req, fresh, located, ds, ret, resp, loc>>

\* map_png has returned FileResponse(tmp_path): the framework reads map.png
\* and sends it
MapStream(r) ==
    /\ pc[r] = "return"
    /\ loc' = [loc EXCEPT ![r].resp =
                 Respond(Return("FileResponse", [type |-> "file"]), mapfile)]
    /\ pc' = [pc EXCEPT ![r] = "done"]
    /\ UNCHANGED <<cwd, override, fs, mapfile, req, fresh, located, ds, ret, resp>>

----------------------------------------------------------------------------
(* Specifications *)

InitRest ==
    /\ mapfile = NoFile
    /\ req = NoReq
    /\ fresh = TRUE
    /\ located = None
    /\ ds = NoDs
    /\ ret = NoRet
    /\ resp = NoResp
    /\ pc = [r \in Slots |-> "idle"]
    /\ loc = [r \in Slots |-> IdleLoc]

\* The service under requests served one at a time while the file that
\* MAZI_DATA_PATH names comes, changes and goes; a second file may lie in
\* the working directory
Init ==
    /\ cwd = <<"/", "srv">>
    /\ override = EnvPath(<<"/", "mnt", "H.nc">>)
    /\ fs = [p \in RelevantPlaces |-> Absent]
    /\ InitRest

Next ==
    \/ Meta
    \/ Health
    \/ \E date \in Dates : Analyze(date)
    \/ MapPng
    \/ PlotPng
    \/ \E lat \in LatQueries, lon \in LonQueries : Predict(lat, lon)
    \/ \E agg \in Aggs : Series(agg)
    \/ \E d \in Catalog : FsPut(OverridePlace, d)
    \/ FsRemove(OverridePlace)
    \/ FsPut(candidates[1], D_other)
    \/ FsRemove(candidates[1])

Spec == Init /\ [][Next]_vars

\* File discovery in every environment
InitFind ==
    /\ cwd \in Cwds
    /\ override \in Overrides
    /\ fs = [p \in RelevantPlaces |-> Absent]
    /\ InitRest

NextFind ==
    \/ Meta
    \/ \E p \in RelevantPlaces : FsPut(p, D_example)
    \/ \E p \in RelevantPlaces : FsRemove(p)

SpecFind == InitFind /\ [][NextFind]_vars

\* Concurrent /map and /plot requests while the source file is replaced
InitConc ==
    /\ cwd = <<"/", "srv">>
    /\ override = EnvUnset
    /\ fs = [p \in RelevantPlaces |->
               IF p = candidates[1] THEN D_example ELSE Absent]
    /\ InitRest

NextConc ==
    \/ \E r \in Slots, ep \in {"map", "plot"} : MapStart(r, ep)
    \/ \E r \in Slots : MapRender(r)
    \/ \E r \in Slots : MapOpen(r)
    \/ \E r \in Slots : MapWrite(r)
    \/ \E r \in Slots : MapStream(r)
    \/ \E d \in {D_example, D_other, D_swapped} : FsPut(candidates[1], d)
    \/ FsRemove(candidates[1])

SpecConc == InitConc /\ [][NextConc]_vars

\* Bounds of the generated grids and axes
MaxCells == 4
MaxAxis == 2

CellVals == {NaN, C(-10), C(30), C(100), C(120)}
AxisVals == {F(10), F(20), F(30)}

\* Every grid of at most MaxCells cells, on the axes 10, 20, ... and 110, 120, ...
GenGrids ==
    UNION { { NC(TRUE, TRUE, [k \in 1..r |-> F(10 * k)],
                 [k \in 1..c |-> F(100 + 10 * k)], H) :
              H \in [1..r -> [1..c -> CellVals]] } :
            <<r, c>> \in {rc \in (1..MaxCells) \X (1..MaxCells) :
                            rc[1] * rc[2] <= MaxCells} }

\* Every pair of axes of at most MaxAxis points, the cell at (i, j) holding
\* (10 i + j) / 100
GenAxes ==
    UNION { { NC(TRUE, TRUE, lat, lon,
                 [i \in 1..r |-> [j \in 1..c |-> C(10 * i + j)]]) :
              lat \in [1..r -> AxisVals], lon \in [1..c -> AxisVals] } :
            <<r, c>> \in (1..MaxAxis) \X (1..MaxAxis) }

GridLatQueries == {F(-100000), F(15), F(25), F(100000), NaN}
GridLonQueries == {F(15), F(20), F(100000)}

InitWith(D) ==
    /\ cwd = <<"/", "srv">>
    /\ override = EnvUnset
    /\ \E d \in D :
          fs = [p \in RelevantPlaces |->
                  IF p = candidates[1] THEN d ELSE Absent]
    /\ InitRest

\* /series on every small grid
InitGrid == InitWith(GenGrids)
NextGrid == \E agg \in Aggs : Series(agg)
SpecGrid == InitGrid /\ [][NextGrid]_vars

\* /predict on every small pair of axes
InitAxes == InitWith(GenAxes)
NextAxes == \E lat \in GridLatQueries, lon \in GridLonQueries : Predict(lat, lon)
SpecAxes == InitAxes /\ [][NextAxes]_vars

----------------------------------------------------------------------------
(* Properties *)

\* i is the smallest index of a at which |a[k] - q| is least
Nearest(a, q, i) ==
    /\ i \in 0..(Len(a) - 1)
    /\ \A k \in 0..(Len(a) - 1) :
          /\ FLe(FAbs(FSub(a[i + 1], q)), FAbs(FSub(a[k + 1], q)))
          /\ k < i => FLt(FAbs(FSub(a[i + 1], q)), FAbs(FSub(a[k + 1], q)))

\* C1: for /predict on a loaded grid and a finite query, predict returns as i
\* the smallest index minimising |lat[k] - latQ| and as j the smallest index
\* minimising |lon[k] - lonQ|, both within the axes, and as H the cell
\* H[i, j]; when that cell is a number the response is a 200 that carries
\* exactly these values.
C1_NearestIndex ==
    (/\ req.ep = "predict" /\ ds # NoDs /\ WellShaped(ds)
     /\ isfinite(req.lat) /\ isfinite(req.lon))
    => /\ ret.t = "return"
       /\ ret.content.type = "predict"
       /\ Nearest(ds.lat, req.lat, ret.content.i)
       /\ Nearest(ds.lon, req.lon, ret.content.j)
       /\ ret.content.i <= nrows(ds.H) - 1
       /\ ret.content.j <= ncols(ds.H) - 1
       /\ ret.content.H = ds.H[ret.content.i + 1][ret.content.j + 1]
       /\ isfinite(ds.H[ret.content.i + 1][ret.content.j + 1])
             => resp.status = 200 /\ resp.body = ret.content

\* A query far above the latitudes and midway between two longitudes: the
\* last latitude and the first of the two longitudes are returned
C1_Witness ==
    /\ req.ep = "predict"
    /\ req.lat = F(100000) /\ req.lon = F(15)
    /\ ds # NoDs
    /\ ds.lat = <<F(20), F(10)>> /\ ds.lon = <<F(10), F(20)>>
    /\ resp.status = 200
    /\ resp.body.i = 0 /\ resp.body.j = 0

RECURSIVE SumSeq(_)
SumSeq(a) == IF a = <<>> THEN 0 ELSE Head(a) + SumSeq(Tail(a))

Cells(d) == {ij \in (1..nrows(d.H)) \X (1..ncols(d.H)) : TRUE}
FiniteCells(d) == {ij \in Cells(d) : isfinite(d.H[ij[1]][ij[2]])}
InUnitRange(x) == 0 <= x.n /\ x.n <= x.d

\* C4: for /series in global mode, when the grid has a finite cell the
\* response has 10 bins with left edges 0.0, 0.1, ..., 0.9 and 10 counts whose
\* sum is the number of finite cells with a value in [0.0, 1.0], the cells
\* equal to 1.0 being counted in the last bin; when it has none, bins and
\* counts are empty; the request succeeds either way.
C4_Histogram ==
    (req.ep = "series" /\ req.agg = "global" /\ ds # NoDs)
    => /\ resp.status = 200
       /\ resp.body.type = "global"
       /\ IF FiniteCells(ds) = {}
          THEN resp.body.bins = <<>> /\ resp.body.counts = <<>>
          ELSE /\ Len(resp.body.bins) = 10
               /\ \A b \in 1..10 : resp.body.bins[b] = Rat(b - 1, 10)
               /\ Len(resp.body.counts) = 10
               /\ SumSeq(resp.body.counts)
                     = Cardinality({ij \in FiniteCells(ds) :
                                      InUnitRange(ds.H[ij[1]][ij[2]])})
               /\ resp.body.counts[10]
                     >= Cardinality({ij \in FiniteCells(ds) :
                                       ds.H[ij[1]][ij[2]] = C(100)})

\* A grid with a cell at 1.0, one above it and one without a value
C4_Witness ==
    /\ req.ep = "series" /\ req.agg = "global"
    /\ ds # NoDs
    /\ ds.H = << <<C(100), C(120), NaN>> >>
    /\ resp.status = 200
    /\ resp.body.counts[10] = 1
    /\ SumSeq(resp.body.counts) = 1

\* The sum of the numbers among a[1..k], and how many they are
RECURSIVE NumSum(_, _)
NumSum(a, k) ==
    IF k = 0 THEN Rat(0, 1)
    ELSE IF isnan(a[k]) THEN NumSum(a, k - 1)
    ELSE LET s == NumSum(a, k - 1)
         IN  Rat(a[k].n * s.d + s.n * a[k].d, a[k].d * s.d)
NumCount(a) == Cardinality({k \in 1..Len(a) : ~isnan(a[k])})

\* m is the mean of the numbers in a, or the null marker when there is none
MeanOrNull(a, m) ==
    IF NumCount(a) = 0 THEN m = Null
    ELSE /\ isfinite(m)
         /\ m.n * NumSum(a, Len(a)).d * NumCount(a) = NumSum(a, Len(a)).n * m.d

OverrideUsable == override.set /\ exists(override.path)
AnyCandidate == \E k \in 1..Len(candidates) : exists(candidates[k])
\* p is the first existing path of the candidate list
FirstCandidate(p) ==
    \E k \in 1..Len(candidates) :
        /\ p = candidates[k]
        /\ exists(candidates[k])
        /\ \A m \in 1..(k - 1) : ~exists(candidates[m])

\* C8: find_data_file returns the override path when the override is
\* configured and exists; otherwise the first existing path of the candidate
\* list, in list order; it returns no path exactly when the override is
\* unusable and no candidate exists; and the path it returns exists at the
\* time of the call.
C8_Discovery ==
    (fresh /\ req.ep = "meta")
    => /\ OverrideUsable => located = Some(abspath(override.path))
       /\ (~OverrideUsable /\ AnyCandidate)
             => located.some /\ FirstCandidate(located.path)
       /\ ~located.some <=> (~OverrideUsable /\ ~AnyCandidate)
       /\ located.some => exists(located.path)

\* The override is set but its file is missing, the working directory holds
\* no file, and two later candidates exist: the earlier of the two is returned
C8_Witness ==
    /\ fresh /\ req.ep = "meta"
    /\ cwd = <<"/", "srv">>
    /\ override = EnvPath(<<"custom.nc">>)
    /\ ~exists(override.path)
    /\ ~exists(candidates[1])
    /\ exists(candidates[3]) /\ exists(candidates[5])
    /\ located = Some(candidates[3])

\* The file find_data_file leads to in the current file system, or Absent
Source ==
    IF OverrideUsable THEN fs[abspath(override.path)]
    ELSE IF AnyCandidate
    THEN fs[CHOOSE p \in {candidates[k] : k \in 1..Len(candidates)} :
              FirstCandidate(p)]
    ELSE Absent

\* C9: nothing is cached across requests.  After any sequence of requests
\* and of changes to the source file, the response of the request served
\* last rests on the file as it is now: the dataset its handler held is the
\* current file's; with no file, /meta, /map, /plot and /series answer 404
\* and /predict returns the 0.5 fallback (a 200 for a finite query); with a
\* file, a successful response reports that file's axes, cell or image.
C9_NoCache ==
    (fresh /\ req.ep \notin {"", "health"})
    => /\ ds \in {NoDs, Source}
       /\ Source = Absent
          => /\ req.ep \in {"meta", "map", "plot", "series"}
                => resp.status = 404
             /\ req.ep = "predict"
                => /\ ret.t = "return"
                   /\ ret.content.type = "fallback"
                   /\ ret.content.H = Rat(1, 2)
                   /\ (isfinite(req.lat) /\ isfinite(req.lon))
                         => resp.status = 200 /\ resp.body = ret.content
       /\ (Source # Absent /\ resp.status = 200)
          => /\ req.ep = "meta"
                => /\ resp.body.lat.size = Len(Source.lat)
                   /\ resp.body.lon.size = Len(Source.lon)
             /\ req.ep \in {"map", "plot"} => resp.body = Image(Source)
             /\ req.ep = "predict"
                => /\ resp.body.type = "predict"
                   /\ resp.body.H
                         = Source.H[resp.body.i + 1][resp.body.j + 1]
             /\ (req.ep = "series" /\ req.agg = "lat_mean")
                => resp.body.lat = Source.lat
             /\ (req.ep = "series" /\ req.agg = "lon_mean")
                => resp.body.lon = Source.lon

\* map.png still holds the image of the example grid served earlier; the
\* file has been replaced since, and /meta reports the new file
C9_Witness ==
    /\ fresh /\ req.ep = "meta"
    /\ mapfile = Image(D_example)
    /\ Source = D_other
    /\ resp.status = 200
    /\ resp.body.lat.size = 3

\* C2: when no source file is discoverable, whatever the parameters, /meta,
\* /map, /plot and /series answer 404, /analyze answers 200 with a message
\* and no statistics, /predict answers 200 with H = 0.5, a note and no
\* indices; none answers 500.
C2_NoFile ==
    (req.ep \notin {"", "health"} /\ ~located.some)
    => /\ req.ep \in {"meta", "map", "plot", "series"} => resp.status = 404
       /\ req.ep = "analyze"
             => resp.status = 200 /\ resp.body.type = "message"
       /\ req.ep = "predict"
             => /\ resp.status = 200
                /\ resp.body.type = "fallback"
                /\ resp.body.H = Rat(1, 2)

\* C3: when the file loads (here: and holds a value, so that the statistics
\* are numbers), /analyze with a date that the format %Y-%m-%d does not
\* match answers 400, never 500; a date that matches is echoed back as
\* requested_date with status 200.
C3_BadDate ==
    (/\ req.ep = "analyze" /\ ds # NoDs /\ FiniteCells(ds) # {}
     /\ req.date.given)
    => IF strptime(req.date.s)
       THEN /\ resp.status = 200
            /\ resp.body.type = "analyze"
            /\ resp.body.requested_date = req.date.s
       ELSE resp.status = 400

\* C6: for /predict on a loaded grid, when the resolved cell is not a number
\* the request succeeds and reports H as not-a-number together with i and j.
C6_NaNCell ==
    (/\ req.ep = "predict" /\ ds # NoDs
     /\ ret.t = "return" /\ ret.content.type = "predict"
     /\ isnan(ds.H[ret.content.i + 1][ret.content.j + 1]))
    => /\ resp.status = 200
       /\ resp.body.type = "predict"
       /\ isnan(resp.body.H)
       /\ resp.body.i = ret.content.i /\ resp.body.j = ret.content.j

\* C7: under any interleaving of concurrent /map and /plot requests, each
\* successful response is the image of the dataset that request loaded.
C7_Isolation ==
    \A r \in Slots :
        (pc[r] = "done" /\ loc[r].resp.status = 200)
        => loc[r].resp.body = Image(loc[r].ds)

\* C10: every dataset load_h_dataset returns has H.shape == (lat.size,
\* lon.size), so no handler holds a grid that violates it.
C10_ShapeChecked == ds # NoDs => WellShaped(ds)

====
